---- MODULE Spec2Model ----
(***************************************************************************)
(* LoyaltyTokenExchange (contracts/hello-world/src/lib.rs): a Soroban      *)
(* contract keeping a brand registry, a brand counter and per-(user,brand) *)
(* balances in instance storage.                                           *)
(*                                                                         *)
(* The three key spaces of the instance storage (BRAND_COUNT,              *)
(* BrandBook::Brand(id), UserBalance::Balance(user, id)) are three partial *)
(* maps; a key that was never set is absent from the map's DOMAIN, and     *)
(* `get(..).unwrap_or(d)` reads d there.                                   *)
(*                                                                         *)
(* i64 arithmetic is modelled at a reduced width of I64Bits bits.  The     *)
(* source adds with a plain `+`: on overflow the invocation panics when    *)
(* the crate is built with overflow checks and stores the two's-complement *)
(* wrapped value when it is built without them.  The build is the          *)
(* variable overflow_checks, chosen at Init and never changed.             *)
(*                                                                         *)
(* The host runs one invocation at a time.  Each entry point is one action *)
(* that takes the contract from idle to "returned": it records the call,   *)
(* its outcome and the storage it started from in last / pre.  host_return *)
(* hands the outcome to the caller and makes the contract idle again.      *)
(***************************************************************************)
EXTENDS Integers, Sequences, FiniteSets, TLC

\* ---------------------------------------------------------------- bounds
I64Bits == 3
MaxBrands == 2
MaxCalls == 3

I64_MAX == 2 ^ (I64Bits - 1) - 1
I64_MIN == 0 - 2 ^ (I64Bits - 1)

Users == {"u1", "u2"}
Names == {"Amazon", "Apple"}
BrandIds == 0 .. MaxBrands
Amounts == {0 - 1, 0, 1, I64_MAX}

VARIABLES
    counter,          \* instance storage, key BRAND_COUNT
    brand_book,       \* instance storage, keys BrandBook::Brand(id)
    user_balance,     \* instance storage, keys UserBalance::Balance(user, id)
    overflow_checks,  \* the build: TRUE = `+` panics on overflow, FALSE = wraps
    last,             \* the invocation that has just returned (NoCall when idle)
    pre,              \* history: the storage that invocation started from
    registered,       \* history: (id returned, name given) per register_brand, in call order
    issued,           \* history: per key, sum of the amounts issue_tokens credited
    debited,          \* history: per key, sum of the amounts exchange_tokens debited
    credited,         \* history: per key, sum of the amounts exchange_tokens credited
    calls,            \* history: number of successful issue/exchange invocations
    pc,               \* SpecSteps: where the running exchange_tokens stands
    frame             \* SpecSteps: the balances as the running invocation sees them

vars == <<counter, brand_book, user_balance, overflow_checks, last, pre,
          registered, issued, debited, credited, calls, pc, frame>>

store == <<counter, brand_book, user_balance>>
hist == <<registered, issued, debited, credited, calls>>
flight == <<pc, frame>>

\* ------------------------------------------------------- storage helpers
EmptyMap == [k \in {} |-> 0]

\* env.storage().instance().set(&key, &value)
Put(m, k, v) == [x \in (DOMAIN m) \cup {k} |-> IF x = k THEN v ELSE m[x]]

\* env.storage().instance().get(&key).unwrap_or(d)
GetOr(m, k, d) == IF k \in DOMAIN m THEN m[k] ELSE d

BRAND_COUNT == "B_COUNT"

\* mutant: the key leaves the user out (one balance per brand)
Balance_shared(user, brand_id) == <<"u1", brand_id>>

Balance(user, brand_id) == <<user, brand_id>>

Brand(id, name, active) == [brand_id |-> id, brand_name |-> name, is_active |-> active]

\* mutant: the sentinel carries no name
NotFound_unnamed == Brand(0, "", FALSE)

\* mutant: the sentinel is active
NotFound_active == Brand(0, "Not_Found", TRUE)

NotFound == Brand(0, "Not_Found", FALSE)

\* ------------------------------------------------------------ arithmetic
\* two's-complement wrap of an integer to the i64 range
Wrap(x) == ((x - I64_MIN) % (2 ^ I64Bits)) + I64_MIN

InRange(x) == I64_MIN <= x /\ x <= I64_MAX

\* ------------------------------------------------------------- read-only
\* mutant: a missing entry reads as 1
view_user_balance_of_one(bal, user, brand_id) == GetOr(bal, Balance(user, brand_id), 1)

view_user_balance_of(bal, user, brand_id) == GetOr(bal, Balance(user, brand_id), 0)

view_brand_of(book, brand_id) == GetOr(book, brand_id, NotFound)

get_brand_count_of(cnt) == GetOr(cnt, BRAND_COUNT, 0)

\* ------------------------------------------------------------ invocation
NoCall == [op |-> "none", user |-> "u1", auth |-> TRUE, from |-> 0, to |-> 0,
           amount |-> 0, name |-> "", res |-> "ok", ret |-> 0, brand |-> NotFound]

Call(op, res) == [NoCall EXCEPT !.op = op, !.res = res]

Idle == last.op = "none"

\* the three key spaces as one value
Storage(cnt, book, bal) == [counter |-> cnt, brand_book |-> book, user_balance |-> bal]

HistRow == [k \in Users \X BrandIds |-> 0]

Init ==
    /\ counter = EmptyMap
    /\ brand_book = EmptyMap
    /\ user_balance = EmptyMap
    /\ overflow_checks \in BOOLEAN
    /\ last = NoCall
    /\ pre = Storage(EmptyMap, EmptyMap, EmptyMap)
    /\ registered = <<>>
    /\ issued = HistRow
    /\ debited = HistRow
    /\ credited = HistRow
    /\ calls = 0
    /\ pc = "idle"
    /\ frame = EmptyMap

\* what every invocation records: the call and the storage it started from
Returns(call) ==
    /\ last' = call
    /\ pre' = Storage(counter, brand_book, user_balance)
    /\ UNCHANGED flight

\* a panic: the invocation aborts and the host commits none of its writes
Abort(call) ==
    /\ Returns(call)
    /\ UNCHANGED <<store, overflow_checks, hist>>

\* mutant: the authorization check is missing
require_auth_missing(user, auth) == TRUE

\* user.require_auth()
require_auth(user, auth) == auth

\* mutant: `amount < 0`
NotPositive_strict(amount) == amount < 0

\* `amount <= 0`
NotPositive(amount) == amount <= 0

\* mutant: the operands swapped
Insufficient_swapped(from_balance, amount) == amount < from_balance

\* `from_balance < amount`
Insufficient(from_balance, amount) == from_balance < amount

\* an i64 `a + b` / `a - b` whose mathematical value is x: does it panic?
Overflows(x) == ~InRange(x) /\ overflow_checks

\* mutant: the increment is missing
NextBrandCount_same(brand_count) == brand_count

\* mutant: the count is advanced by two
NextBrandCount_skip(brand_count) == brand_count + 2

\* brand_count += 1
NextBrandCount(brand_count) == brand_count + 1

\* mutant: the brand is stored under the count before the increment
NewBrandKey_old(brand_count) == brand_count - 1

\* the key register_brand stores the new brand under
NewBrandKey(brand_count) == brand_count

\* current_balance + amount
IssueSum(current_balance, amount) == current_balance + amount

\* from_balance - amount
DebitDiff(from_balance, amount) == from_balance - amount

\* mutant: the amount is not added
CreditSum_dropped(to_balance, amount) == to_balance

\* to_balance + amount
CreditSum(to_balance, amount) == to_balance + amount

\* mutant: the destination balance is never stored
CreditWrite_missing(bal, to_balance_key, new_to_balance) == bal

\* env.storage().instance().set(&to_balance_key, &new_to_balance)
CreditWrite(bal, to_balance_key, new_to_balance) == Put(bal, to_balance_key, new_to_balance)

\* mutant: registering a brand clears the balances
register_brand_clearing(brand_name) ==
    LET brand_count == NextBrandCount(get_brand_count_of(counter))
        new_brand == Brand(brand_count, brand_name, TRUE)
    IN  /\ Idle
        /\ brand_count <= MaxBrands
        /\ brand_book' = Put(brand_book, NewBrandKey(brand_count), new_brand)
        /\ counter' = Put(counter, BRAND_COUNT, brand_count)
        /\ registered' = Append(registered, [id |-> brand_count, name |-> brand_name])
        /\ Returns([Call("register_brand", "ok") EXCEPT !.name = brand_name,
                                                        !.ret = brand_count])
        /\ user_balance' = EmptyMap
        /\ UNCHANGED <<overflow_checks, issued, debited, credited, calls>>

\* pub fn register_brand(env, brand_name) -> u64
register_brand(brand_name) ==
    LET brand_count == NextBrandCount(get_brand_count_of(counter))
        new_brand == Brand(brand_count, brand_name, TRUE)
    IN  /\ Idle
        /\ brand_count <= MaxBrands
        /\ brand_book' = Put(brand_book, NewBrandKey(brand_count), new_brand)
        /\ counter' = Put(counter, BRAND_COUNT, brand_count)
        /\ registered' = Append(registered, [id |-> brand_count, name |-> brand_name])
        /\ Returns([Call("register_brand", "ok") EXCEPT !.name = brand_name,
                                                        !.ret = brand_count])
        /\ UNCHANGED <<user_balance, overflow_checks, issued, debited, credited, calls>>

\* mutant: the amount is checked before the brand
issue_tokens_amount_first(user, brand_id, amount, auth) ==
    LET call(res) == [Call("issue_tokens", res) EXCEPT !.user = user, !.auth = auth,
                          !.from = brand_id, !.amount = amount]
        brand == view_brand_of(brand_book, brand_id)
        balance_key == Balance(user, brand_id)
        current_balance == GetOr(user_balance, balance_key, 0)
        new_balance == IssueSum(current_balance, amount)
    IN  /\ Idle
        /\ IF ~require_auth(user, auth) THEN Abort(call("Unauthorized"))
           ELSE IF NotPositive(amount) THEN Abort(call("InvalidAmount"))
           ELSE IF ~brand.is_active THEN Abort(call("InactiveBrand"))
           ELSE IF Overflows(new_balance) THEN Abort(call("Overflow"))
           ELSE /\ calls < MaxCalls
                /\ user_balance' = Put(user_balance, balance_key, Wrap(new_balance))
                /\ issued' = [issued EXCEPT ![balance_key] = @ + amount]
                /\ calls' = calls + 1
                /\ Returns(call("ok"))
                /\ UNCHANGED <<counter, brand_book, overflow_checks, registered,
                               debited, credited>>

\* pub fn issue_tokens(env, user, brand_id, amount)
issue_tokens(user, brand_id, amount, auth) ==
    LET call(res) == [Call("issue_tokens", res) EXCEPT !.user = user, !.auth = auth,
                          !.from = brand_id, !.amount = amount]
        brand == view_brand_of(brand_book, brand_id)
        balance_key == Balance(user, brand_id)
        current_balance == GetOr(user_balance, balance_key, 0)
        new_balance == IssueSum(current_balance, amount)
    IN  /\ Idle
        /\ IF ~require_auth(user, auth) THEN Abort(call("Unauthorized"))
           ELSE IF ~brand.is_active THEN Abort(call("InactiveBrand"))
           ELSE IF NotPositive(amount) THEN Abort(call("InvalidAmount"))
           ELSE IF Overflows(new_balance) THEN Abort(call("Overflow"))
           ELSE /\ calls < MaxCalls
                /\ user_balance' = Put(user_balance, balance_key, Wrap(new_balance))
                /\ issued' = [issued EXCEPT ![balance_key] = @ + amount]
                /\ calls' = calls + 1
                /\ Returns(call("ok"))
                /\ UNCHANGED <<counter, brand_book, overflow_checks, registered,
                               debited, credited>>

\* pub fn exchange_tokens(env, user, from_brand, to_brand, amount)
exchange_tokens(user, from_brand, to_brand, amount, auth) ==
    LET call(res) == [Call("exchange_tokens", res) EXCEPT !.user = user, !.auth = auth,
                          !.from = from_brand, !.to = to_brand, !.amount = amount]
        from_brand_data == view_brand_of(brand_book, from_brand)
        to_brand_data == view_brand_of(brand_book, to_brand)
        from_balance_key == Balance(user, from_brand)
        from_balance == GetOr(user_balance, from_balance_key, 0)
        new_from_balance == DebitDiff(from_balance, amount)
        after_debit == Put(user_balance, from_balance_key, Wrap(new_from_balance))
        to_balance_key == Balance(user, to_brand)
        to_balance == GetOr(after_debit, to_balance_key, 0)
        new_to_balance == CreditSum(to_balance, amount)
    IN  /\ Idle
        /\ IF ~require_auth(user, auth) THEN Abort(call("Unauthorized"))
           ELSE IF NotPositive(amount) THEN Abort(call("InvalidAmount"))
           ELSE IF from_brand = to_brand THEN Abort(call("SameBrandExchange"))
           ELSE IF ~from_brand_data.is_active \/ ~to_brand_data.is_active
                THEN Abort(call("InactiveBrand"))
           ELSE IF Insufficient(from_balance, amount)
                THEN Abort(call("InsufficientBalance"))
           ELSE IF Overflows(new_from_balance) \/ Overflows(new_to_balance)
                THEN Abort(call("Overflow"))
           ELSE /\ calls < MaxCalls
                /\ user_balance' = CreditWrite(after_debit, to_balance_key,
                                               Wrap(new_to_balance))
                /\ debited' = [debited EXCEPT ![from_balance_key] = @ + amount]
                /\ credited' = [credited EXCEPT ![to_balance_key] = @ + amount]
                /\ calls' = calls + 1
                /\ Returns(call("ok"))
                /\ UNCHANGED <<counter, brand_book, overflow_checks, registered, issued>>

\* mutant: the lookup stores the value it read (get-or-insert)
view_user_balance_inserting(user, brand_id) ==
    /\ Idle
    /\ Returns([Call("view_user_balance", "ok") EXCEPT !.user = user, !.from = brand_id,
                    !.ret = view_user_balance_of(user_balance, user, brand_id)])
    /\ user_balance' = Put(user_balance, Balance(user, brand_id),
                           view_user_balance_of(user_balance, user, brand_id))
    /\ UNCHANGED <<counter, brand_book, overflow_checks, hist>>

\* pub fn view_user_balance(env, user, brand_id) -> i64
view_user_balance(user, brand_id) ==
    /\ Idle
    /\ Returns([Call("view_user_balance", "ok") EXCEPT !.user = user, !.from = brand_id,
                    !.ret = view_user_balance_of(user_balance, user, brand_id)])
    /\ UNCHANGED <<store, overflow_checks, hist>>

\* pub fn view_brand(env, brand_id) -> Brand
view_brand(brand_id) ==
    /\ Idle
    /\ Returns([Call("view_brand", "ok") EXCEPT !.from = brand_id,
                    !.brand = view_brand_of(brand_book, brand_id)])
    /\ UNCHANGED <<store, overflow_checks, hist>>

\* pub fn get_brand_count(env) -> u64
get_brand_count ==
    /\ Idle
    /\ Returns([Call("get_brand_count", "ok") EXCEPT !.ret = get_brand_count_of(counter)])
    /\ UNCHANGED <<store, overflow_checks, hist>>

\* the host hands the outcome to the caller; the contract is idle again
host_return ==
    /\ ~Idle
    /\ pc = "idle"
    /\ last' = NoCall
    /\ pre' = Storage(counter, brand_book, user_balance)
    /\ UNCHANGED <<store, overflow_checks, hist, flight>>

Next ==
    \/ \E n \in Names : register_brand(n)
    \/ \E u \in Users, b \in BrandIds, a \in Amounts, auth \in BOOLEAN :
           issue_tokens(u, b, a, auth)
    \/ \E u \in Users, f \in BrandIds, t \in BrandIds, a \in Amounts, auth \in BOOLEAN :
           exchange_tokens(u, f, t, a, auth)
    \/ \E u \in Users, b \in BrandIds : view_user_balance(u, b)
    \/ \E b \in BrandIds : view_brand(b)
    \/ get_brand_count
    \/ host_return

Spec == Init /\ [][Next]_vars

\* ------------------------------------------- exchange_tokens, line by line
\* The same handler as three steps.  Its writes go to the invocation's own
\* view of the storage (frame); the host commits them when the invocation
\* returns and discards them when it panics.  No other invocation starts
\* while one is running, and whatever reads the ledger meanwhile reads the
\* committed user_balance.

\* the running invocation panics: the host discards its writes
Panic(res) ==
    /\ last' = [last EXCEPT !.res = res]
    /\ pc' = "idle"
    /\ frame' = EmptyMap
    /\ UNCHANGED <<store, overflow_checks, hist, pre>>

\* lib.rs 89-104: authorization, amount and brand checks
exchange_validate(user, from_brand, to_brand, amount, auth) ==
    LET call(res) == [Call("exchange_tokens", res) EXCEPT !.user = user, !.auth = auth,
                          !.from = from_brand, !.to = to_brand, !.amount = amount]
        from_brand_data == view_brand_of(brand_book, from_brand)
        to_brand_data == view_brand_of(brand_book, to_brand)
    IN  /\ Idle
        /\ IF ~require_auth(user, auth) THEN Abort(call("Unauthorized"))
           ELSE IF NotPositive(amount) THEN Abort(call("InvalidAmount"))
           ELSE IF from_brand = to_brand THEN Abort(call("SameBrandExchange"))
           ELSE IF ~from_brand_data.is_active \/ ~to_brand_data.is_active
                THEN Abort(call("InactiveBrand"))
           ELSE /\ calls < MaxCalls
                /\ last' = call("running")
                /\ pre' = Storage(counter, brand_book, user_balance)
                /\ pc' = "debit"
                /\ frame' = user_balance
                /\ UNCHANGED <<store, overflow_checks, hist>>

\* lib.rs 106-114: read the source balance, check it, store the debit
exchange_debit ==
    LET from_balance_key == Balance(last.user, last.from)
        from_balance == GetOr(frame, from_balance_key, 0)
        new_from_balance == DebitDiff(from_balance, last.amount)
    IN  /\ pc = "debit"
        /\ IF Insufficient(from_balance, last.amount) THEN Panic("InsufficientBalance")
           ELSE IF Overflows(new_from_balance) THEN Panic("Overflow")
           ELSE /\ frame' = Put(frame, from_balance_key, Wrap(new_from_balance))
                /\ pc' = "credit"
                /\ UNCHANGED <<store, overflow_checks, hist, last, pre>>

\* lib.rs 116-130: read the destination balance, store the credit, return
exchange_credit ==
    LET from_balance_key == Balance(last.user, last.from)
        to_balance_key == Balance(last.user, last.to)
        to_balance == GetOr(frame, to_balance_key, 0)
        new_to_balance == CreditSum(to_balance, last.amount)
    IN  /\ pc = "credit"
        /\ IF Overflows(new_to_balance) THEN Panic("Overflow")
           ELSE /\ user_balance' = CreditWrite(frame, to_balance_key, Wrap(new_to_balance))
                /\ debited' = [debited EXCEPT ![from_balance_key] = @ + last.amount]
                /\ credited' = [credited EXCEPT ![to_balance_key] = @ + last.amount]
                /\ calls' = calls + 1
                /\ last' = [last EXCEPT !.res = "ok"]
                /\ pc' = "idle"
                /\ frame' = EmptyMap
                /\ UNCHANGED <<counter, brand_book, overflow_checks, registered,
                               issued, pre>>

NextSteps ==
    \/ \E n \in Names : register_brand(n)
    \/ \E u \in Users, b \in BrandIds, a \in Amounts, auth \in BOOLEAN :
           issue_tokens(u, b, a, auth)
    \/ \E u \in Users, f \in BrandIds, t \in BrandIds, a \in Amounts, auth \in BOOLEAN :
           exchange_validate(u, f, t, a, auth)
    \/ exchange_debit
    \/ exchange_credit
    \/ \E u \in Users, b \in BrandIds : view_user_balance(u, b)
    \/ \E b \in BrandIds : view_brand(b)
    \/ get_brand_count
    \/ host_return

SpecSteps == Init /\ [][NextSteps]_vars

\* ----------------------------------------------------------------- claims
\* the balance a storage s holds for (user, brand_id)
Bal(s, user, brand_id) == view_user_balance_of(s.user_balance, user, brand_id)

Now == Storage(counter, brand_book, user_balance)

Keys == Users \X BrandIds

\* brand_id is registered and active in storage s (read off the stored record)
Active(s, brand_id) == brand_id \in DOMAIN s.brand_book /\ s.brand_book[brand_id].is_active

Did(op) == last.op = op

\* C1: a successful exchange_tokens(user, A, B, amount) leaves
\* balance(user, A) = b1 - amount and balance(user, B) = b2 + amount, where
\* (b1, b2) are the balances before the call, so the sum of the two is kept.
ExchangeConservation ==
    (Did("exchange_tokens") /\ last.res = "ok") =>
        LET b1 == Bal(pre, last.user, last.from)
            b2 == Bal(pre, last.user, last.to)
        IN  /\ Bal(Now, last.user, last.from) = b1 - last.amount
            /\ Bal(Now, last.user, last.to) = b2 + last.amount
            /\ Bal(Now, last.user, last.from) + Bal(Now, last.user, last.to) = b1 + b2

\* C2: in every reachable state every balance entry is >= 0.
NonNegativeBalances ==
    \A k \in DOMAIN user_balance : user_balance[k] >= 0

\* C3: an authorized exchange_tokens is rejected with InvalidAmount when
\* amount <= 0, else with SameBrandExchange when from_brand = to_brand, else
\* with InactiveBrand when either brand is unregistered or inactive, else with
\* InsufficientBalance when the source balance is below amount (each error
\* exactly in that case), and every such rejection leaves all balances as
\* they were before the call.
ExchangeRejection ==
    (Did("exchange_tokens") /\ last.auth) =>
        LET bad_amount == last.amount <= 0
            same == last.from = last.to
            inactive == ~Active(pre, last.from) \/ ~Active(pre, last.to)
            short == Bal(pre, last.user, last.from) < last.amount
        IN  /\ (last.res = "InvalidAmount") <=> bad_amount
            /\ (last.res = "SameBrandExchange") <=> (~bad_amount /\ same)
            /\ (last.res = "InactiveBrand") <=> (~bad_amount /\ ~same /\ inactive)
            /\ (last.res = "InsufficientBalance") <=>
                   (~bad_amount /\ ~same /\ ~inactive /\ short)
            /\ last.res \in {"InvalidAmount", "SameBrandExchange", "InactiveBrand",
                             "InsufficientBalance"} =>
                   user_balance = pre.user_balance

\* C3 witness: an exchange asking for more than the (non-zero) source balance
\* was rejected, as in test_exchange_insufficient_balance.
ExchangeRejectionWitness ==
    /\ Did("exchange_tokens")
    /\ last.res = "InsufficientBalance"
    /\ Bal(pre, last.user, last.from) > 0
    /\ Bal(Now, last.user, last.to) = 0

\* C4: the successful register_brand calls return 1, 2, ..., N in call order,
\* whatever else was called in between, and get_brand_count() is N.
SequentialIds ==
    /\ \A i \in 1 .. Len(registered) : registered[i].id = i
    /\ get_brand_count_of(counter) = Len(registered)
    /\ Did("register_brand") => last.ret = Len(registered)
    /\ Did("get_brand_count") => last.ret = Len(registered)

\* C4 witness: get_brand_count answered 2 after two registrations with an
\* issue in between or after.
SequentialIdsWitness ==
    /\ Did("get_brand_count")
    /\ last.ret = 2
    /\ Len(registered) = 2
    /\ calls >= 1

\* C6 (as claimed): every balance entry equals the sum of the issue_tokens
\* amounts credited to it minus the sum of the exchange_tokens amounts debited
\* from it.
BalanceIsIssuedMinusDebited ==
    \A k \in Keys : GetOr(user_balance, k, 0) = issued[k] - debited[k]

\* C6 (amended): every balance entry equals, as an i64 (modulo 2^64), the
\* issue_tokens amounts credited to it plus the exchange_tokens amounts
\* credited to it minus the exchange_tokens amounts debited from it.
BalanceAccounting ==
    \A k \in Keys : GetOr(user_balance, k, 0) = Wrap(issued[k] + credited[k] - debited[k])

\* C6 witness: an entry that was issued to, exchanged from and exchanged into.
BalanceAccountingWitness ==
    \E k \in Keys : issued[k] > 0 /\ debited[k] > 0 /\ credited[k] > 0

\* C7: a successful issue_tokens(user, brand_id, amount) raises
\* balance(user, brand_id) by exactly amount and changes no other entry.
IssueCorrectness ==
    (Did("issue_tokens") /\ last.res = "ok") =>
        /\ Bal(Now, last.user, last.from) = Bal(pre, last.user, last.from) + last.amount
        /\ \A k \in Keys \ {<<last.user, last.from>>} :
               Bal(Now, k[1], k[2]) = Bal(pre, k[1], k[2])

\* C8: an authorized issue_tokens is rejected with InactiveBrand when the
\* brand is unregistered or inactive, else with InvalidAmount when
\* amount <= 0 (each error exactly in that case), and both rejections leave
\* every balance entry as it was.
IssueRejection ==
    (Did("issue_tokens") /\ last.auth) =>
        LET inactive == ~Active(pre, last.from)
            bad_amount == last.amount <= 0
        IN  /\ (last.res = "InactiveBrand") <=> inactive
            /\ (last.res = "InvalidAmount") <=> (~inactive /\ bad_amount)
            /\ last.res \in {"InactiveBrand", "InvalidAmount"} =>
                   user_balance = pre.user_balance

\* C8 witness: an issue of amount 0 to an active brand that already holds a
\* balance was rejected.
IssueRejectionWitness ==
    /\ Did("issue_tokens")
    /\ last.res = "InvalidAmount"
    /\ last.amount = 0
    /\ Bal(pre, last.user, last.from) > 0

\* C9: an issue_tokens or exchange_tokens whose caller is not authorized as
\* the named user fails with Unauthorized and leaves every balance, every
\* brand record and the brand counter as they were, whatever its arguments.
AuthFirst ==
    ((Did("issue_tokens") \/ Did("exchange_tokens")) /\ ~last.auth) =>
        /\ last.res = "Unauthorized"
        /\ Now = pre

\* C9 witness: an unauthorized exchange that every later check would have let
\* through.
AuthFirstWitness ==
    /\ Did("exchange_tokens")
    /\ ~last.auth
    /\ last.amount > 0
    /\ last.from # last.to
    /\ Active(pre, last.from)
    /\ Active(pre, last.to)
    /\ Bal(pre, last.user, last.from) >= last.amount

\* C10: once register_brand has returned id i for name n, view_brand(i) is
\* (i, n, active) in every later state; nothing deletes or changes a record.
BrandsImmutable ==
    /\ \A i \in 1 .. Len(registered) :
           view_brand_of(brand_book, registered[i].id) =
               Brand(registered[i].id, registered[i].name, TRUE)
    /\ Did("view_brand") =>
           \A i \in 1 .. Len(registered) :
               registered[i].id = last.from =>
                   last.brand = Brand(last.from, registered[i].name, TRUE)

\* C10 witness: view_brand(1) answered after a second brand with a different
\* name was registered and tokens were issued.
BrandsImmutableWitness ==
    /\ Did("view_brand")
    /\ last.from = 1
    /\ Len(registered) = 2
    /\ registered[1].name # registered[2].name
    /\ calls >= 1

ReturnedIds == {registered[i].id : i \in 1 .. Len(registered)}

\* C11: view_brand(id) for an id register_brand never returned (0 and ids
\* above the counter included) does not fail and returns the sentinel
\* (brand_id 0, brand_name "Not_Found", inactive).
UnknownBrandSentinel ==
    LET sentinel == [brand_id |-> 0, brand_name |-> "Not_Found", is_active |-> FALSE]
    IN  /\ \A id \in BrandIds \ ReturnedIds : view_brand_of(brand_book, id) = sentinel
        /\ (Did("view_brand") /\ last.from \notin ReturnedIds) =>
               (last.res = "ok" /\ last.brand = sentinel)

\* C11 witness: view_brand answered for an id above the counter after a
\* brand was registered and tokens were issued.
UnknownBrandSentinelWitness ==
    /\ Did("view_brand")
    /\ Len(registered) = 1
    /\ last.from > get_brand_count_of(counter)
    /\ calls >= 1

\* a successful issue_tokens or exchange_tokens has written the entry k
Written(k) == issued[k] > 0 \/ debited[k] > 0 \/ credited[k] > 0

\* C12: an entry (user, brand_id) that no successful issue_tokens or
\* exchange_tokens has written is absent from the storage and
\* view_user_balance returns 0 for it, unregistered brand ids included; a
\* failed issue_tokens or exchange_tokens creates no entry.
DefaultBalance ==
    /\ \A k \in Keys : ~Written(k) => k \notin DOMAIN user_balance
    /\ (Did("view_user_balance") /\ ~Written(<<last.user, last.from>>)) =>
           (last.res = "ok" /\ last.ret = 0)
    /\ ((Did("issue_tokens") \/ Did("exchange_tokens")) /\ last.res # "ok") =>
           DOMAIN user_balance = DOMAIN pre.user_balance

\* C12 witness: view_user_balance answered for an unregistered brand id and
\* a user who holds tokens of a registered brand.
DefaultBalanceWitness ==
    /\ Did("view_user_balance")
    /\ last.from \notin ReturnedIds
    /\ \E b \in ReturnedIds : Written(<<last.user, b>>)

\* C13: view_user_balance, view_brand and get_brand_count can be invoked
\* with every argument whenever the contract is idle, return a value
\* without failing, and leave all balances, all brand records and the brand
\* counter as they were.
ReadOnlyViews ==
    /\ Idle =>
           /\ \A u \in Users, b \in BrandIds : ENABLED view_user_balance(u, b)
           /\ \A b \in BrandIds : ENABLED view_brand(b)
           /\ ENABLED get_brand_count
    /\ \A u \in Users, b \in BrandIds :
           view_user_balance_of(user_balance, u, b) \in I64_MIN .. I64_MAX
    /\ \A b \in BrandIds :
           view_brand_of(brand_book, b) \in
               [brand_id : BrandIds, brand_name : Names \cup {"Not_Found"},
                is_active : BOOLEAN]
    /\ get_brand_count_of(counter) \in 0 .. MaxBrands
    /\ (Did("view_user_balance") \/ Did("view_brand") \/ Did("get_brand_count")) =>
           (last.res = "ok" /\ Now = pre)

\* C13 witness: view_user_balance returned a user's non-zero balance.
ReadOnlyViewsWitness ==
    /\ Did("view_user_balance")
    /\ last.ret > 0
    /\ <<last.user, last.from>> \in DOMAIN user_balance

\* C14: with brand counter c, brand records exist for exactly the ids 1..c,
\* the record at key i has brand_id i and is active, and none exists at 0
\* or above c; the counter grows by exactly 1 in a register_brand and is
\* unchanged by every other invocation.
DenseRegistry ==
    LET c == get_brand_count_of(counter)
        c0 == get_brand_count_of(pre.counter)
    IN  /\ DOMAIN brand_book = 1 .. c
        /\ \A i \in 1 .. c : brand_book[i].brand_id = i /\ brand_book[i].is_active
        /\ c = Len(registered)
        /\ IF Did("register_brand") THEN c = c0 + 1 ELSE c = c0

\* C14 witness: the second register_brand has returned, after tokens of the
\* first brand were issued.
DenseRegistryWitness ==
    /\ Did("register_brand")
    /\ get_brand_count_of(counter) = 2
    /\ \E u \in Users : Written(<<u, 1>>)

\* C15: register_brand changes no balance entry; issue_tokens and
\* exchange_tokens, successful or not, change no brand record and not the
\* counter; an invocation that changed a brand record or the counter was a
\* register_brand, one that changed a balance entry was an issue_tokens or
\* an exchange_tokens.
KeySpaceOwnership ==
    /\ Did("register_brand") => user_balance = pre.user_balance
    /\ (Did("issue_tokens") \/ Did("exchange_tokens")) =>
           (brand_book = pre.brand_book /\ counter = pre.counter)
    /\ (brand_book # pre.brand_book \/ counter # pre.counter) => Did("register_brand")
    /\ user_balance # pre.user_balance =>
           (Did("issue_tokens") \/ Did("exchange_tokens"))

\* C15 witness: register_brand returned while users held balances.
KeySpaceOwnershipWitness ==
    /\ Did("register_brand")
    /\ last.ret = 2
    /\ \E k \in DOMAIN user_balance : user_balance[k] > 0

RECURSIVE SumOver(_, _)
\* the sum of f[k] over the keys k in S
SumOver(f, S) ==
    IF S = {} THEN 0
    ELSE LET k == CHOOSE x \in S : TRUE IN f[k] + SumOver(f, S \ {k})

\* the sum of a user's balances over all brands, in balance map bal
UserTotal(bal, user) ==
    SumOver([k \in Keys |-> GetOr(bal, k, 0)], {user} \X BrandIds)

\* C16: for every user the sum of the user's balances over all brands equals
\* the sum of the amounts of the user's successful issue_tokens calls;
\* exchange_tokens (successful or rejected) and failed issue_tokens calls
\* leave every user's total as it was.
PerUserTotal ==
    /\ \A u \in Users :
           UserTotal(user_balance, u) = SumOver(issued, {u} \X BrandIds)
    /\ (Did("exchange_tokens") \/ (Did("issue_tokens") /\ last.res # "ok")) =>
           \A u \in Users :
               UserTotal(user_balance, u) = UserTotal(pre.user_balance, u)

\* the rejection the specified step order gives the last issue_tokens call,
\* "pass" when no step rejects it
IssueVerdict ==
    IF ~last.auth THEN "Unauthorized"
    ELSE IF ~Active(pre, last.from) THEN "InactiveBrand"
    ELSE IF last.amount <= 0 THEN "InvalidAmount"
    ELSE "pass"

\* the same for the last exchange_tokens call
ExchangeVerdict ==
    IF ~last.auth THEN "Unauthorized"
    ELSE IF last.amount <= 0 THEN "InvalidAmount"
    ELSE IF last.from = last.to THEN "SameBrandExchange"
    ELSE IF ~Active(pre, last.from) \/ ~Active(pre, last.to) THEN "InactiveBrand"
    ELSE IF Bal(pre, last.user, last.from) < last.amount THEN "InsufficientBalance"
    ELSE "pass"

Rejections == {"Unauthorized", "InactiveBrand", "InvalidAmount", "SameBrandExchange",
               "InsufficientBalance"}

\* C17: when several rejection conditions hold at once, issue_tokens reports
\* Unauthorized before InactiveBrand before InvalidAmount, and
\* exchange_tokens reports Unauthorized before InvalidAmount before
\* SameBrandExchange before InactiveBrand before InsufficientBalance.
ErrorPrecedence ==
    /\ Did("issue_tokens") =>
           IF IssueVerdict = "pass" THEN last.res \notin Rejections
           ELSE last.res = IssueVerdict
    /\ Did("exchange_tokens") =>
           IF ExchangeVerdict = "pass" THEN last.res \notin Rejections
           ELSE last.res = ExchangeVerdict

\* C17 witness: an authorized exchange with from_brand = to_brand on an
\* unregistered brand and a positive amount was rejected.
ErrorPrecedenceWitness ==
    /\ Did("exchange_tokens")
    /\ last.auth
    /\ last.amount > 0
    /\ last.from = last.to
    /\ ~Active(pre, last.from)
    /\ Len(registered) >= 1

BalancesOnlyForRegistered ==
    \A u \in Users, b \in BrandIds :
        view_user_balance_of(user_balance, u, b) # 0 =>
            (1 <= b /\ b <= get_brand_count_of(counter))

\* C19 witness: an authorized issue_tokens of a positive amount to an id
\* above the counter has returned, the user holding tokens of brand 1.
BalancesOnlyForRegisteredWitness ==
    /\ Did("issue_tokens")
    /\ last.auth
    /\ last.amount > 0
    /\ last.from > get_brand_count_of(counter)
    /\ view_user_balance_of(user_balance, last.user, 1) > 0

\* C20: when current balance + amount exceeds 2^63 - 1 in an issue_tokens
\* that passed its checks, or destination balance + amount exceeds 2^63 - 1
\* in an exchange_tokens that passed its checks, the invocation aborts and
\* every balance, the exchange's source balance included, is as before the
\* call.
NoWrappedBalances ==
    LET kept == \A k \in Keys : Bal(Now, k[1], k[2]) = Bal(pre, k[1], k[2])
    IN  /\ ( /\ Did("issue_tokens")
             /\ last.auth
             /\ Active(pre, last.from)
             /\ last.amount > 0
             /\ Bal(pre, last.user, last.from) + last.amount > I64_MAX )
            => (last.res # "ok" /\ kept)
        /\ ( /\ Did("exchange_tokens")
             /\ last.auth
             /\ last.amount > 0
             /\ last.from # last.to
             /\ Active(pre, last.from)
             /\ Active(pre, last.to)
             /\ Bal(pre, last.user, last.from) >= last.amount
             /\ Bal(pre, last.user, last.to) + last.amount > I64_MAX )
            => (last.res # "ok" /\ kept)

====
